---- MODULE Spec2Model ----
(***************************************************************************)
(* The packet codec of renet (renet/src/packet.rs) and the                 *)
(* DisconnectionReason id mapping (renet/src/error.rs).                    *)
(*                                                                         *)
(* A byte is an integer 0..255, a buffer a sequence of bytes.  A packet    *)
(* is a record whose "type" field names the enum variant.  A              *)
(* DisconnectionReason is a tuple: <<name>> for the five unit variants,    *)
(* <<name, channel_id>> for the three that carry a channel id.             *)
(***************************************************************************)
EXTENDS Integers, Sequences, FiniteSets, TLC

VARIABLES packet, buffer, producer, slice, result, measured, empty, reason, wire,
          converted, op, written, decoded, sink

vars == <<packet, buffer, producer, slice, result, measured, empty, reason, wire,
          converted, op, written, decoded, sink>>

(***************************************************************************)
(* Bounds of the model.                                                    *)
(***************************************************************************)
\* channels + messages + payload bytes of one Normal packet body
MaxWeight == 5
\* payload bytes of a Fragment packet
MaxFragmentPayload == 2
\* length of a buffer received from the transport
MaxRaw == 3
\* packets written one after another into one buffer
MaxStream == 3
\* bytes a sink that takes short writes accepts in one call of write
MaxAccept == 2

(***************************************************************************)
(* Fixed-width integers.                                                   *)
(***************************************************************************)
U8 == 256
U16 == 65536

\* A u8 and a u16 are the integers below U8 and U16.  A u32 is the record of its
\* two 16-bit halves, [hi, lo] standing for hi * 65536 + lo, which keeps all 32
\* bits within the integers of the model checker.
U32Of(hi, lo) == [hi |-> hi, lo |-> lo]

\* to_le_bytes of a u8, u16 and u32: low byte first
u8_to_le_bytes(x) == <<x>>
u16_to_le_bytes(x) == <<x % 256, x \div 256>>
\* the four bytes of a u32 high byte first
u32_to_be_bytes(x) ==
    <<x.hi \div 256, x.hi % 256, x.lo \div 256, x.lo % 256>>
u32_to_le_bytes(x) == u16_to_le_bytes(x.lo) \o u16_to_le_bytes(x.hi)

\* from_le_bytes
u16_from_le_bytes(b) == b[1] + 256 * b[2]
u32_from_le_bytes(b) ==
    U32Of(u16_from_le_bytes(<<b[3], b[4]>>), u16_from_le_bytes(<<b[1], b[2]>>))

\* a cast to u16 that stops at u16::MAX
as_u16_saturating(x) == IF x < U16 THEN x ELSE U16 - 1
\* `x as u8`, `x as u16` of a usize
as_u8(x) == x % U8
as_u16(x) == x % U16

(***************************************************************************)
(* DisconnectionReason                                                     *)
(***************************************************************************)
UnitReasons ==
    {"MaxConnections", "TimedOut", "DisconnectedByServer", "DisconnectedByClient",
     "ClientAlreadyConnected"}
ChannelReasons ==
    {"InvalidChannelId", "MismatchingChannelType", "ReliableChannelOutOfSync"}

\* DisconnectionReason::id
id_swapped(r) ==
    CASE r[1] = "MaxConnections" -> 0
      [] r[1] = "TimedOut" -> 1
      [] r[1] = "DisconnectedByServer" -> 2
      [] r[1] = "DisconnectedByClient" -> 3
      [] r[1] = "ClientAlreadyConnected" -> 4
      [] r[1] = "InvalidChannelId" -> 6
      [] r[1] = "MismatchingChannelType" -> 5
      [] r[1] = "ReliableChannelOutOfSync" -> 7
id(r) ==
    CASE r[1] = "MaxConnections" -> 0
      [] r[1] = "TimedOut" -> 1
      [] r[1] = "DisconnectedByServer" -> 2
      [] r[1] = "DisconnectedByClient" -> 3
      [] r[1] = "ClientAlreadyConnected" -> 4
      [] r[1] = "InvalidChannelId" -> 5
      [] r[1] = "MismatchingChannelType" -> 6
      [] r[1] = "ReliableChannelOutOfSync" -> 7

\* Option<DisconnectionReason>
None == [some |-> FALSE, value |-> <<>>]
Some(v) == [some |-> TRUE, value |-> v]

\* DisconnectionReason::try_from
try_from_lenient(i, channel_id) ==
    CASE i = 0 -> Some(<<"MaxConnections">>)
      [] i = 1 -> Some(<<"TimedOut">>)
      [] i = 2 -> Some(<<"DisconnectedByServer">>)
      [] i = 3 -> Some(<<"DisconnectedByClient">>)
      [] i = 4 -> Some(<<"ClientAlreadyConnected">>)
      [] i = 5 -> Some(<<"InvalidChannelId", channel_id>>)
      [] i = 6 -> Some(<<"MismatchingChannelType", channel_id>>)
      [] i = 7 -> Some(<<"ReliableChannelOutOfSync", channel_id>>)
      [] OTHER -> Some(<<"MaxConnections">>)
try_from(i, channel_id) ==
    CASE i = 0 -> Some(<<"MaxConnections">>)
      [] i = 1 -> Some(<<"TimedOut">>)
      [] i = 2 -> Some(<<"DisconnectedByServer">>)
      [] i = 3 -> Some(<<"DisconnectedByClient">>)
      [] i = 4 -> Some(<<"ClientAlreadyConnected">>)
      [] i = 5 -> Some(<<"InvalidChannelId", channel_id>>)
      [] i = 6 -> Some(<<"MismatchingChannelType", channel_id>>)
      [] i = 7 -> Some(<<"ReliableChannelOutOfSync", channel_id>>)
      [] OTHER -> None

(***************************************************************************)
(* Packets                                                                 *)
(***************************************************************************)
NoPacket == [type |-> "None"]

AckData(ack, ack_bits) == [ack |-> ack, ack_bits |-> ack_bits]

ChannelMessages(reliable, unreliable, block) ==
    [reliable_channels_data |-> reliable,
     unreliable_channels_data |-> unreliable,
     block_channels_data |-> block]

Normal(sequence, ack_data, channel_messages) ==
    [type |-> "Normal", sequence |-> sequence, ack_data |-> ack_data,
     channel_messages |-> channel_messages]

Fragment(sequence, ack_data, fragment_id, num_fragments, payload) ==
    [type |-> "Fragment", sequence |-> sequence, ack_data |-> ack_data,
     fragment_id |-> fragment_id, num_fragments |-> num_fragments,
     payload |-> payload]

HeartBeat(ack_data) == [type |-> "Heartbeat", ack_data |-> ack_data]

Disconnect(r) == [type |-> "Disconnect", reason |-> r]

\* ChannelMessages::is_empty
is_empty_two_lists(cm) ==
    cm.unreliable_channels_data = <<>> /\ cm.reliable_channels_data = <<>>
is_empty(cm) ==
    /\ cm.block_channels_data = <<>>
    /\ cm.unreliable_channels_data = <<>>
    /\ cm.reliable_channels_data = <<>>

(***************************************************************************)
(* Packet::write.  The function issues a sequence of calls on the sink:    *)
(* `out.write(bytes)` for the tag, the fixed-width fields and the          *)
(* prefixes, `out.write_all(bytes)` for the payloads.  WriteCalls is that  *)
(* sequence; `all` tells the two calls apart.                              *)
(***************************************************************************)
Write(bytes) == [all |-> FALSE, bytes |-> bytes]
WriteAll(bytes) == [all |-> TRUE, bytes |-> bytes]

\* body of the loop over a reliable channel's messages
WriteReliableMessage(message) ==
    << Write(u16_to_le_bytes(message.id)),
       Write(u16_to_le_bytes(as_u16(Len(message.payload)))),
       WriteAll(message.payload) >>

\* body of the loop over an unreliable channel's messages
WriteUnreliableMessage(message) ==
    << Write(u16_to_le_bytes(as_u16(Len(message)))),
       WriteAll(message) >>

\* body of the loop over a block channel's messages
WriteSliceMessage(message) ==
    << Write(u16_to_le_bytes(message.chunk_id)),
       Write(u32_to_le_bytes(message.slice_id)),
       Write(u32_to_le_bytes(message.num_slices)),
       Write(u16_to_le_bytes(as_u16(Len(message.payload)))),
       WriteAll(message.payload) >>

\* body of the loop over the messages of a channel of the category
WriteMessage(category, message) ==
    CASE category = "reliable" -> WriteReliableMessage(message)
      [] category = "unreliable" -> WriteUnreliableMessage(message)
      [] category = "block" -> WriteSliceMessage(message)

\* `for message in data.messages.iter()`: the calls for messages[lo], ...,
\* messages[hi] in that order (computed by halves, which keeps the evaluation
\* shallow for long lists)
RECURSIVE WriteMessages(_, _, _, _)
WriteMessages(category, messages, lo, hi) ==
    IF lo > hi THEN <<>>
    ELSE IF lo = hi THEN WriteMessage(category, messages[lo])
    ELSE WriteMessages(category, messages, lo, (lo + hi) \div 2)
         \o WriteMessages(category, messages, (lo + hi) \div 2 + 1, hi)

\* body of the loop over the channels of one category
WriteChannelData(category, data) ==
    << Write(u8_to_le_bytes(data.channel_id)),
       Write(u16_to_le_bytes(as_u16(Len(data.messages)))) >>
    \o WriteMessages(category, data.messages, 1, Len(data.messages))

\* `for data in channel_messages.<category>_channels_data.iter()`: the calls for
\* channels[lo], ..., channels[hi] in that order
RECURSIVE WriteChannelsData(_, _, _, _)
WriteChannelsData(category, channels, lo, hi) ==
    IF lo > hi THEN <<>>
    ELSE IF lo = hi THEN WriteChannelData(category, channels[lo])
    ELSE WriteChannelsData(category, channels, lo, (lo + hi) \div 2)
         \o WriteChannelsData(category, channels, (lo + hi) \div 2 + 1, hi)

\* the channel-count prefix and the channels of one category
WriteChannels(category, channels) ==
    << Write(u8_to_le_bytes(as_u8(Len(channels)))) >>
    \o WriteChannelsData(category, channels, 1, Len(channels))

\* Packet::write, Normal arm, with the unreliable block ahead of the reliable one
WriteNormalUnreliableFirst(p) ==
    << Write(<<0>>),
       Write(u16_to_le_bytes(p.sequence)),
       Write(u16_to_le_bytes(p.ack_data.ack)),
       Write(u32_to_le_bytes(p.ack_data.ack_bits)) >>
    \o WriteChannels("unreliable", p.channel_messages.unreliable_channels_data)
    \o WriteChannels("reliable", p.channel_messages.reliable_channels_data)
    \o WriteChannels("block", p.channel_messages.block_channels_data)
\* Packet::write, Normal arm
WriteNormal(p) ==
    << Write(<<0>>),
       Write(u16_to_le_bytes(p.sequence)),
       Write(u16_to_le_bytes(p.ack_data.ack)),
       Write(u32_to_le_bytes(p.ack_data.ack_bits)) >>
    \o WriteChannels("reliable", p.channel_messages.reliable_channels_data)
    \o WriteChannels("unreliable", p.channel_messages.unreliable_channels_data)
    \o WriteChannels("block", p.channel_messages.block_channels_data)

\* Packet::write, Fragment arm
WriteFragment(p) ==
    << Write(<<1>>),
       Write(u16_to_le_bytes(p.sequence)),
       Write(u16_to_le_bytes(p.ack_data.ack)),
       Write(u32_to_le_bytes(p.ack_data.ack_bits)),
       Write(u8_to_le_bytes(p.fragment_id)),
       Write(u8_to_le_bytes(p.num_fragments)),
       Write(u16_to_le_bytes(as_u16(Len(p.payload)))),
       WriteAll(p.payload) >>

\* Packet::write, Heartbeat arm
WriteHeartbeat(p) ==
    << Write(<<2>>),
       Write(u16_to_le_bytes(p.ack_data.ack)),
       Write(u32_to_le_bytes(p.ack_data.ack_bits)) >>

\* Packet::write, Disconnect arm, without the padding byte of the unit reasons
WriteDisconnectNoPadding(p) ==
    << Write(<<3>>), Write(u8_to_le_bytes(id(p.reason))) >>
    \o IF p.reason[1] \in ChannelReasons
          THEN << Write(u8_to_le_bytes(p.reason[2])) >>
          ELSE << >>
\* Packet::write, Disconnect arm
WriteDisconnect(p) ==
    << Write(<<3>>), Write(u8_to_le_bytes(id(p.reason))) >>
    \o IF p.reason[1] \in ChannelReasons
          THEN << Write(u8_to_le_bytes(p.reason[2])) >>
          ELSE << Write(<<0>>) >>

\* the calls Packet::write issues for packet p, in order
WriteCalls(p) ==
    CASE p.type = "Normal" -> WriteNormal(p)
      [] p.type = "Fragment" -> WriteFragment(p)
      [] p.type = "Heartbeat" -> WriteHeartbeat(p)
      [] p.type = "Disconnect" -> WriteDisconnect(p)

\* Vec<u8> as io::Write: write and write_all both append every byte offered
\* (the bytes of calls[lo], ..., calls[hi] in the order of the calls)
RECURSIVE VecWrite(_, _, _)
VecWrite(calls, lo, hi) ==
    IF lo > hi THEN <<>>
    ELSE IF lo = hi THEN calls[lo].bytes
    ELSE VecWrite(calls, lo, (lo + hi) \div 2) \o VecWrite(calls, (lo + hi) \div 2 + 1, hi)

\* an io::Write whose write accepts at most limit >= 1 bytes of the buffer it
\* is offered and returns Ok(n) with the number n it accepted, and whose
\* write_all calls write until every byte is accepted: what the sink has
\* received after calls[lo], ..., calls[hi], whose results Packet::write
\* passes through `?`, which looks at Err only
RECURSIVE ShortWrite(_, _, _, _)
ShortWrite(calls, lo, hi, limit) ==
    IF lo > hi THEN <<>>
    ELSE IF lo = hi
       THEN IF calls[lo].all \/ Len(calls[lo].bytes) <= limit
               THEN calls[lo].bytes
               ELSE SubSeq(calls[lo].bytes, 1, limit)
    ELSE ShortWrite(calls, lo, (lo + hi) \div 2, limit)
         \o ShortWrite(calls, (lo + hi) \div 2 + 1, hi, limit)

\* Packet::write(&self, out) on such a sink: what the sink has received when
\* write returns Ok(())
write_short(p, limit) ==
    LET calls == WriteCalls(p) IN ShortWrite(calls, 1, Len(calls), limit)

\* Packet::write(&self, out) on a Vec<u8>: the contents of out afterwards
\* (every call returns Ok, so write returns Ok(()))
write(p, out) == LET calls == WriteCalls(p) IN out \o VecWrite(calls, 1, Len(calls))

(***************************************************************************)
(* Packet::serialize_size                                                  *)
(***************************************************************************)
\* `size += ...` of the body of the loop over a channel's messages
MessageSize(category, message) ==
    CASE category = "reliable" -> 2 + 2 + Len(message.payload)
      [] category = "unreliable" -> 2 + Len(message)
      [] category = "block" -> 2 + 4 + 4 + 2 + Len(message.payload)

\* `for message in data.messages.iter() { size += ... }` over messages[lo], ...,
\* messages[hi]
RECURSIVE MessagesSize(_, _, _, _)
MessagesSize(category, messages, lo, hi) ==
    IF lo > hi THEN 0
    ELSE IF lo = hi THEN MessageSize(category, messages[lo])
    ELSE MessagesSize(category, messages, lo, (lo + hi) \div 2)
         + MessagesSize(category, messages, (lo + hi) \div 2 + 1, hi)

\* `size += ...` of the body of the loop over the channels of a category
ChannelDataSize(category, data) ==
    1 + 2 + MessagesSize(category, data.messages, 1, Len(data.messages))

\* `for data in channel_messages.<category>_channels_data.iter() { size += ... }`
\* over channels[lo], ..., channels[hi]
RECURSIVE ChannelsDataSize(_, _, _, _)
ChannelsDataSize(category, channels, lo, hi) ==
    IF lo > hi THEN 0
    ELSE IF lo = hi THEN ChannelDataSize(category, channels[lo])
    ELSE ChannelsDataSize(category, channels, lo, (lo + hi) \div 2)
         + ChannelsDataSize(category, channels, (lo + hi) \div 2 + 1, hi)

\* the channel_size byte and the channels of one category
ChannelsSize(category, channels) ==
    1 + ChannelsDataSize(category, channels, 1, Len(channels))

serialize_size(p) ==
    IF p.type = "Normal"
       THEN 1 + 2 + 6
            + ChannelsSize("reliable", p.channel_messages.reliable_channels_data)
            + ChannelsSize("unreliable", p.channel_messages.unreliable_channels_data)
            + ChannelsSize("block", p.channel_messages.block_channels_data)
       ELSE 0

(***************************************************************************)
(* Packet::read.  src is the `&[u8]` the caller hands in as io::Read.  A   *)
(* reader returns [ok, val, rest]: ok = FALSE is Err(io::Error) of         *)
(* read_exact on too short a slice (UnexpectedEof), rest the slice left    *)
(* after an Ok.                                                            *)
(***************************************************************************)
IoOk(val, rest) == [ok |-> TRUE, val |-> val, rest |-> rest]
IoErr == [ok |-> FALSE, val |-> <<>>, rest |-> <<>>]

\* read_exact that hands back zeros for the bytes the slice does not hold
read_exact_zero_filled(src, n) ==
    IF Len(src) < n
       THEN IoOk(src \o [i \in 1..(n - Len(src)) |-> 0], <<>>)
       ELSE IoOk(SubSeq(src, 1, n), SubSeq(src, n + 1, Len(src)))
\* <&[u8] as io::Read>::read_exact into a buffer of n bytes
read_exact(src, n) ==
    IF Len(src) < n
       THEN IoErr
       ELSE IoOk(SubSeq(src, 1, n), SubSeq(src, n + 1, Len(src)))

read_u8(src) ==
    LET r == read_exact(src, 1) IN
    IF r.ok THEN IoOk(r.val[1], r.rest) ELSE IoErr

\* read_u16 decoding the two bytes high byte first
read_u16_big_endian(src) ==
    LET r == read_exact(src, 2) IN
    IF r.ok THEN IoOk(256 * r.val[1] + r.val[2], r.rest) ELSE IoErr
read_u16(src) ==
    LET r == read_exact(src, 2) IN
    IF r.ok THEN IoOk(u16_from_le_bytes(r.val), r.rest) ELSE IoErr

read_u32(src) ==
    LET r == read_exact(src, 4) IN
    IF r.ok THEN IoOk(u32_from_le_bytes(r.val), r.rest) ELSE IoErr

\* `let size = read_u16(src)? as usize; let mut payload = vec![0; size];
\*  src.read_exact(&mut payload)?;`
ReadPayload(src) ==
    LET size == read_u16(src) IN
    IF ~size.ok THEN IoErr ELSE read_exact(size.rest, size.val)

\* body of the loop over a reliable channel's messages
ReadReliableMessage(src) ==
    LET id_ == read_u16(src) IN
    IF ~id_.ok THEN IoErr ELSE
    LET payload == ReadPayload(id_.rest) IN
    IF ~payload.ok THEN IoErr ELSE
    IoOk([id |-> id_.val, payload |-> payload.val], payload.rest)

\* body of the loop over an unreliable channel's messages
ReadUnreliableMessage(src) == ReadPayload(src)

\* body of the loop over a block channel's messages
ReadSliceMessage(src) ==
    LET chunk_id == read_u16(src) IN
    IF ~chunk_id.ok THEN IoErr ELSE
    LET slice_id == read_u32(chunk_id.rest) IN
    IF ~slice_id.ok THEN IoErr ELSE
    LET num_slices == read_u32(slice_id.rest) IN
    IF ~num_slices.ok THEN IoErr ELSE
    LET payload == ReadPayload(num_slices.rest) IN
    IF ~payload.ok THEN IoErr ELSE
    IoOk([chunk_id |-> chunk_id.val, slice_id |-> slice_id.val,
          num_slices |-> num_slices.val, payload |-> payload.val], payload.rest)

\* body of the loop over the messages of a channel of the category
ReadMessage(category, src) ==
    CASE category = "reliable" -> ReadReliableMessage(src)
      [] category = "unreliable" -> ReadUnreliableMessage(src)
      [] category = "block" -> ReadSliceMessage(src)

\* `items.push(item)` on the first turn of a loop, the `?` of the loop's body
\* returning from Packet::read when the item could not be read
Pushed(item) ==
    IF ~item.ok THEN IoErr ELSE IoOk(<<item.val>>, item.rest)

\* the items pushed so far followed by the ones the later turns of the loop
\* push, the `?` of a later turn returning from Packet::read
Extended(items, later) ==
    IF ~later.ok THEN IoErr ELSE IoOk(items \o later.val, later.rest)

\* `for _ in 0..messages_len { ...; messages.push(message) }`: n messages read
\* one after another, each from where the one before it stopped, the first
\* failing read returning from Packet::read (the first half of the messages,
\* then the second half from where the first stopped, which keeps the
\* evaluation shallow for large n)
RECURSIVE ReadMessages(_, _, _)
ReadMessagesFrom(category, first, n) ==
    IF ~first.ok THEN IoErr
    ELSE Extended(first.val, ReadMessages(category, first.rest, n))
ReadMessages(category, src, n) ==
    IF n = 0 THEN IoOk(<<>>, src)
    ELSE IF n = 1 THEN Pushed(ReadMessage(category, src))
    ELSE ReadMessagesFrom(category, ReadMessages(category, src, n \div 2),
                          n - n \div 2)

\* `ChannelData { channel_id, messages }` pushed at the end of a turn of the
\* loop over the channels
ChannelDataOf(channel_id, messages) ==
    IF ~messages.ok THEN IoErr ELSE
    IoOk([channel_id |-> channel_id, messages |-> messages.val], messages.rest)

\* body of the loop over the channels of one category
ReadChannelData(category, src) ==
    LET channel_id == read_u8(src) IN
    IF ~channel_id.ok THEN IoErr ELSE
    LET messages_len == read_u16(channel_id.rest) IN
    IF ~messages_len.ok THEN IoErr ELSE
    ChannelDataOf(channel_id.val,
                  ReadMessages(category, messages_len.rest, messages_len.val))

\* `for _ in 0..<category>_channel_len { ...; channels_data.push(data) }`: n
\* channels read one after another
RECURSIVE ReadChannelsData(_, _, _)
ReadChannelsDataFrom(category, first, n) ==
    IF ~first.ok THEN IoErr
    ELSE Extended(first.val, ReadChannelsData(category, first.rest, n))
ReadChannelsData(category, src, n) ==
    IF n = 0 THEN IoOk(<<>>, src)
    ELSE IF n = 1 THEN Pushed(ReadChannelData(category, src))
    ELSE ReadChannelsDataFrom(category,
                              ReadChannelsData(category, src, n \div 2),
                              n - n \div 2)

\* the channel-count prefix and the channels of one category
ReadChannels(category, src) ==
    LET channel_len == read_u8(src) IN
    IF ~channel_len.ok THEN IoErr ELSE
    ReadChannelsData(category, channel_len.rest, channel_len.val)

\* `ChannelMessages { reliable_channels_data, unreliable_channels_data,
\*  block_channels_data }` once the block channels are read
ChannelMessagesOf(reliable, unreliable, block) ==
    IF ~block.ok THEN IoErr ELSE
    IoOk(ChannelMessages(reliable, unreliable, block.val), block.rest)

\* the block channels, read from where the unreliable channels stopped
ReadBlockChannels(reliable, unreliable) ==
    IF ~unreliable.ok THEN IoErr ELSE
    ChannelMessagesOf(reliable, unreliable.val,
                      ReadChannels("block", unreliable.rest))

\* the unreliable channels, read from where the reliable channels stopped
ReadUnreliableChannels(reliable) ==
    IF ~reliable.ok THEN IoErr ELSE
    ReadBlockChannels(reliable.val, ReadChannels("unreliable", reliable.rest))

\* the three channel lists of the Normal arm: reliable, unreliable, block
ReadChannelMessages(src) ==
    ReadUnreliableChannels(ReadChannels("reliable", src))

\* `let sequence = read_u16(src)?; let ack = read_u16(src)?;
\*  let ack_bits = read_u32(src)?;` of the Normal and Fragment arms
ReadHeader(src) ==
    LET sequence == read_u16(src) IN
    IF ~sequence.ok THEN IoErr ELSE
    LET ack == read_u16(sequence.rest) IN
    IF ~ack.ok THEN IoErr ELSE
    LET ack_bits == read_u32(ack.rest) IN
    IF ~ack_bits.ok THEN IoErr ELSE
    IoOk([sequence |-> sequence.val, ack_data |-> AckData(ack.val, ack_bits.val)],
         ack_bits.rest)

\* an Ok that leaves nothing of the slice, whatever followed the packet
OkDrained(p, rest) == [kind |-> "Ok", packet |-> p, rest |-> <<>>]
\* Result<Packet, PacketError> of Packet::read, with the slice left on Ok
Ok(p, rest) == [kind |-> "Ok", packet |-> p, rest |-> rest]
Err(e) == [kind |-> e, packet |-> NoPacket, rest |-> <<>>]
IoError == Err("IoError")
InvalidPacketType == Err("InvalidPacketType")
InvalidDisconnectReason == Err("InvalidDisconnectReason")

\* `Ok(Packet::Normal { sequence, ack_data, channel_messages })`
NormalOf(header, channel_messages) ==
    IF ~channel_messages.ok THEN IoError ELSE
    Ok(Normal(header.sequence, header.ack_data, channel_messages.val),
       channel_messages.rest)

\* Packet::read, arm 0
ReadNormal(src) ==
    LET header == ReadHeader(src) IN
    IF ~header.ok THEN IoError ELSE
    NormalOf(header.val, ReadChannelMessages(header.rest))

\* Packet::read, arm 1
ReadFragment(src) ==
    LET header == ReadHeader(src) IN
    IF ~header.ok THEN IoError ELSE
    LET fragment_id == read_u8(header.rest) IN
    IF ~fragment_id.ok THEN IoError ELSE
    LET num_fragments == read_u8(fragment_id.rest) IN
    IF ~num_fragments.ok THEN IoError ELSE
    LET payload == ReadPayload(num_fragments.rest) IN
    IF ~payload.ok THEN IoError ELSE
    Ok(Fragment(header.val.sequence, header.val.ack_data, fragment_id.val,
                num_fragments.val, payload.val),
       payload.rest)

\* Packet::read, arm 2
ReadHeartbeat(src) ==
    LET ack == read_u16(src) IN
    IF ~ack.ok THEN IoError ELSE
    LET ack_bits == read_u32(ack.rest) IN
    IF ~ack_bits.ok THEN IoError ELSE
    Ok(HeartBeat(AckData(ack.val, ack_bits.val)), ack_bits.rest)

\* Packet::read, arm 3
ReadDisconnect(src) ==
    LET reason_id == read_u8(src) IN
    IF ~reason_id.ok THEN IoError ELSE
    LET channel_id == read_u8(reason_id.rest) IN
    IF ~channel_id.ok THEN IoError ELSE
    LET r == try_from(reason_id.val, channel_id.val) IN
    IF r.some THEN Ok(Disconnect(r.value), channel_id.rest)
              ELSE InvalidDisconnectReason

\* Packet::read whose match falls back to the Heartbeat arm
read_default_heartbeat(src) ==
    LET packet_type == read_u8(src) IN
    IF ~packet_type.ok THEN IoError ELSE
    CASE packet_type.val = 0 -> ReadNormal(packet_type.rest)
      [] packet_type.val = 1 -> ReadFragment(packet_type.rest)
      [] packet_type.val = 3 -> ReadDisconnect(packet_type.rest)
      [] OTHER -> ReadHeartbeat(packet_type.rest)
\* Packet::read
read(src) ==
    LET packet_type == read_u8(src) IN
    IF ~packet_type.ok THEN IoError ELSE
    CASE packet_type.val = 0 -> ReadNormal(packet_type.rest)
      [] packet_type.val = 1 -> ReadFragment(packet_type.rest)
      [] packet_type.val = 2 -> ReadHeartbeat(packet_type.rest)
      [] packet_type.val = 3 -> ReadDisconnect(packet_type.rest)
      [] OTHER -> InvalidPacketType

(***************************************************************************)
(* The inputs: packets handed to write, buffers handed to read.            *)
(***************************************************************************)
ChannelIds == {1, 2}
PayloadBytes == {255}
U16Values == {0, 258, 65535}
U32Values == {U32Of(0, 0), U32Of(258, 772), U32Of(65535, 65535)}

\* byte sequences of length at most n
RECURSIVE Payloads(_)
Payloads(n) ==
    IF n <= 0 THEN {<<>>}
    ELSE Payloads(n - 1)
         \cup {Append(bytes, b) : bytes \in {q \in Payloads(n - 1) : Len(q) = n - 1},
                                  b \in PayloadBytes}

\* the messages of one category whose payload holds at most n bytes
Messages(category, n) ==
    CASE category = "reliable" ->
            {[id |-> 258, payload |-> bytes] : bytes \in Payloads(n)}
      [] category = "unreliable" -> Payloads(n)
      [] category = "block" ->
            {[chunk_id |-> 513, slice_id |-> U32Of(258, 772), num_slices |-> U32Of(1, 4),
              payload |-> bytes] : bytes \in Payloads(n)}

PayloadOf(category, message) ==
    IF category = "unreliable" THEN message ELSE message.payload

\* a message counts 1 plus its payload bytes, a channel 1 plus its messages
RECURSIVE MessagesWeight(_, _, _)
MessagesWeight(category, messages, i) ==
    IF i > Len(messages) THEN 0
    ELSE 1 + Len(PayloadOf(category, messages[i]))
         + MessagesWeight(category, messages, i + 1)

RECURSIVE ChannelsWeight(_, _, _)
ChannelsWeight(category, channels, i) ==
    IF i > Len(channels) THEN 0
    ELSE 1 + MessagesWeight(category, channels[i].messages, 1)
         + ChannelsWeight(category, channels, i + 1)

\* the message lists of one category of weight at most w
RECURSIVE MessageLists(_, _)
MessageLists(category, w) ==
    {<<>>} \cup
    IF w <= 0 THEN {}
    ELSE UNION {{<<m>> \o rest :
                    rest \in MessageLists(category, w - 1 - Len(PayloadOf(category, m)))} :
                m \in Messages(category, w - 1)}

\* the channel lists of one category of weight at most w
RECURSIVE ChannelLists(_, _)
ChannelLists(category, w) ==
    {<<>>} \cup
    IF w <= 0 THEN {}
    ELSE UNION {{<<[channel_id |-> c, messages |-> ms]>> \o rest :
                    c \in ChannelIds,
                    rest \in ChannelLists(category, w - 1 - MessagesWeight(category, ms, 1))} :
                ms \in MessageLists(category, w - 1)}

\* the aggregations of weight at most MaxWeight
Aggregations ==
    UNION {UNION {{ChannelMessages(reliable, unreliable, block) :
                      block \in ChannelLists("block",
                                    MaxWeight - ChannelsWeight("reliable", reliable, 1)
                                              - ChannelsWeight("unreliable", unreliable, 1))} :
                  unreliable \in ChannelLists("unreliable",
                                    MaxWeight - ChannelsWeight("reliable", reliable, 1))} :
           reliable \in ChannelLists("reliable", MaxWeight)}

\* the most channels a category can hold with its count still fitting the u8
\* prefix, as the reliable channels of one packet
MaximalCountPacket ==
    Normal(7, AckData(0, U32Of(0, 3)),
           ChannelMessages([i \in 1..(U8 - 1) |-> [channel_id |-> i - 1, messages |-> <<>>]],
                           <<>>, <<>>))

NormalPackets ==
    {Normal(258, AckData(513, U32Of(258, 772)), cm) : cm \in Aggregations}
    \cup {MaximalCountPacket}
    \cup {Normal(s, AckData(a, b), ChannelMessages(<<>>, <<>>, <<>>)) :
            s \in U16Values, a \in U16Values, b \in U32Values}

FragmentPackets ==
    {Fragment(s, AckData(a, b), f, n, bytes) :
        s \in U16Values, a \in U16Values, b \in U32Values,
        f \in {0, 255}, n \in {1, 255}, bytes \in Payloads(MaxFragmentPayload)}

HeartbeatPackets == {HeartBeat(AckData(a, b)) : a \in U16Values, b \in U32Values}

ReasonChannelIds == {0, 1, 255}
Reasons ==
    {<<name>> : name \in UnitReasons}
    \cup {<<name, c>> : name \in ChannelReasons, c \in ReasonChannelIds}

DisconnectPackets == {Disconnect(r) : r \in Reasons}

\* buffers a transport can hand to read: every byte sequence of at most
\* MaxRaw bytes over tags, reason ids and counts on both sides of their ranges
RawBytes == {0, 1, 2, 3, 4, 7, 8, 255}
RECURSIVE RawBuffers(_)
RawBuffers(n) ==
    IF n <= 0 THEN {<<>>}
    ELSE RawBuffers(n - 1)
         \cup {Append(bytes, b) : bytes \in {q \in RawBuffers(n - 1) : Len(q) = n - 1},
                                  b \in RawBytes}

(***************************************************************************)
(* disconnect_packet: `bincode::options().serialize(&Packet::Disconnect(   *)
(* reason))`.  The serde encoding of an enum value is its variant index    *)
(* (the position of the variant in the enum declaration) as a u32,         *)
(* followed by the variant's fields; bincode::options() encodes a u32 as   *)
(* a varint (one byte below 251) and a u8 as one byte.  A unit variant has *)
(* no fields.                                                              *)
(***************************************************************************)
\* position of Packet::Disconnect in `enum Packet`
DisconnectVariantIndex == 3

\* position of the reason's variant in `enum DisconnectionReason`
ReasonVariantIndex(r) ==
    CASE r[1] = "MaxConnections" -> 0
      [] r[1] = "TimedOut" -> 1
      [] r[1] = "DisconnectedByServer" -> 2
      [] r[1] = "DisconnectedByClient" -> 3
      [] r[1] = "ClientAlreadyConnected" -> 4
      [] r[1] = "InvalidChannelId" -> 5
      [] r[1] = "MismatchingChannelType" -> 6
      [] r[1] = "ReliableChannelOutOfSync" -> 7

\* bincode's varint encoding of a u32 below 2^16
BincodeVarint(v) == IF v < 251 THEN <<v>> ELSE <<251>> \o u16_to_le_bytes(v)

\* the Ok value of disconnect_packet(reason)
disconnect_packet(r) ==
    BincodeVarint(DisconnectVariantIndex)
    \o BincodeVarint(ReasonVariantIndex(r))
    \o IF r[1] \in ChannelReasons THEN <<r[2]>> ELSE <<>>

(***************************************************************************)
(* The state: the packet handed to write, serialize_size, is_empty or      *)
(* disconnect_packet; the Vec<u8> holding the bytes and the operation that *)
(* produced them; the slice of it handed to read with read's result; the   *)
(* size measured; the answer of is_empty; and for the reason id mapping    *)
(* the reason, its wire pair <<id, channel_id>> and the result of          *)
(* try_from.  op names the operation that acted last.  Init draws the      *)
(* input of one run: a packet, a reason, a wire pair, or nothing when the  *)
(* bytes come from the transport.  sink is <<limit>> when the bytes went   *)
(* to an io::Write that takes at most limit bytes in one call of write.    *)
(* written and decoded are the packets and the read results of a buffer    *)
(* that holds several packets.                                             *)
(***************************************************************************)
NoResult == [kind |-> "None", packet |-> NoPacket, rest |-> <<>>]
NoSize == 0 - 1
NoReason == <<"None">>
NoWire == <<>>
NoAnswer == <<>>
NoSink == <<>>

Packets == NormalPackets \cup FragmentPackets \cup HeartbeatPackets \cup DisconnectPackets
Datagrams == RawBuffers(MaxRaw)
WirePairs == (RawBytes \cup {5, 6, 9, 128}) \X ReasonChannelIds

Init ==
    /\ sink = NoSink
    /\ written = <<>>
    /\ decoded = <<>>
    /\ buffer = <<>>
    /\ producer = "none"
    /\ slice = <<>>
    /\ result = NoResult
    /\ measured = NoSize
    /\ empty = NoAnswer
    /\ converted = None
    /\ \/ packet \in Packets /\ reason = NoReason /\ wire = NoWire /\ op = "packet"
       \/ packet = NoPacket /\ reason \in Reasons /\ wire = NoWire /\ op = "reason"
       \/ packet = NoPacket /\ reason = NoReason /\ wire \in WirePairs /\ op = "wire"
       \/ packet = NoPacket /\ reason = NoReason /\ wire = NoWire /\ op = "transport"

\* `let mut buffer: Vec<u8> = vec![]; packet.write(&mut buffer).unwrap();`
Encode ==
    /\ op = "packet"
    /\ buffer' = write(packet, buffer)
    /\ producer' = "write"
    /\ op' = "write"
    /\ UNCHANGED <<packet, slice, result, measured, empty, reason, wire, converted,
                   written, decoded, sink>>

\* `packet.write(&mut out)` with out an io::Write that accepts at most limit
\* bytes in one call of write; buffer holds what out has received
EncodeShort ==
    /\ op = "packet"
    /\ \E limit \in 1..MaxAccept :
          /\ sink' = <<limit>>
          /\ buffer' = write_short(packet, limit)
    /\ producer' = "write_short"
    /\ op' = "write_short"
    /\ UNCHANGED <<packet, slice, result, measured, empty, reason, wire, converted,
                   written, decoded>>

\* `packet.serialize_size()` of the packet just written
Measure ==
    /\ op = "write"
    /\ measured' = serialize_size(packet)
    /\ op' = "serialize_size"
    /\ UNCHANGED <<packet, buffer, producer, slice, result, empty, reason, wire, converted,
                   written, decoded, sink>>

\* `channel_messages.is_empty()` of a Normal packet about to be sent
IsEmpty ==
    /\ op = "packet"
    /\ packet.type = "Normal"
    /\ empty' = <<is_empty(packet.channel_messages)>>
    /\ op' = "is_empty"
    /\ UNCHANGED <<packet, buffer, producer, slice, result, measured, reason, wire,
                   converted, written, decoded, sink>>

\* `channel_messages.is_empty()` of a Normal packet read returned
IsEmptyDecoded ==
    /\ op = "read"
    /\ result.kind = "Ok"
    /\ result.packet.type = "Normal"
    /\ empty' = <<is_empty(result.packet.channel_messages)>>
    /\ op' = "is_empty_decoded"
    /\ UNCHANGED <<packet, buffer, producer, slice, result, measured, reason, wire,
                   converted, written, decoded, sink>>

\* `let buffer = disconnect_packet(reason).unwrap();`
DisconnectPacket ==
    /\ op = "packet"
    /\ packet.type = "Disconnect"
    /\ buffer' = disconnect_packet(packet.reason)
    /\ producer' = "disconnect_packet"
    /\ op' = "disconnect_packet"
    /\ UNCHANGED <<packet, slice, result, measured, empty, reason, wire, converted,
                   written, decoded, sink>>

\* the transport hands over a datagram
Receive ==
    /\ op = "transport"
    /\ \E bytes \in Datagrams : buffer' = bytes
    /\ producer' = "transport"
    /\ op' = "receive"
    /\ UNCHANGED <<packet, slice, result, measured, empty, reason, wire, converted,
                   written, decoded, sink>>

\* `Packet::read(&mut buffer.as_slice())`
Decode ==
    /\ op \in {"write", "disconnect_packet", "receive"}
    /\ slice' = buffer
    /\ result' = read(buffer)
    /\ op' = "read"
    /\ UNCHANGED <<packet, buffer, producer, measured, empty, reason, wire, converted,
                   written, decoded, sink>>

\* `Packet::read(&mut &buffer[..n])` with n < buffer.len(): the datagram has
\* not arrived whole
DecodeTruncated ==
    /\ op = "write"
    /\ \E n \in 0..(Len(buffer) - 1) :
          /\ slice' = SubSeq(buffer, 1, n)
          /\ result' = read(SubSeq(buffer, 1, n))
    /\ op' = "read_truncated"
    /\ UNCHANGED <<packet, buffer, producer, measured, empty, reason, wire, converted,
                   written, decoded, sink>>

\* `reason.id()`, with the channel id a Disconnect packet carries next to it
ReasonId ==
    /\ op = "reason"
    /\ wire' = <<id(reason), IF reason[1] \in ChannelReasons THEN reason[2] ELSE 0>>
    /\ op' = "id"
    /\ UNCHANGED <<packet, buffer, producer, slice, result, measured, empty, reason,
                   converted, written, decoded, sink>>

\* `DisconnectionReason::try_from(id, channel_id)`
TryFrom ==
    /\ op \in {"id", "wire"}
    /\ converted' = try_from(wire[1], wire[2])
    /\ op' = "try_from"
    /\ UNCHANGED <<packet, buffer, producer, slice, result, measured, empty, reason,
                   wire,
                   written, decoded, sink>>

Next ==
    \/ Encode
    \/ EncodeShort
    \/ Measure
    \/ IsEmpty
    \/ IsEmptyDecoded
    \/ DisconnectPacket
    \/ Receive
    \/ Decode
    \/ DecodeTruncated
    \/ ReasonId
    \/ TryFrom

Spec == Init /\ [][Next]_vars

(***************************************************************************)
(* Several packets in one buffer: `p1.write(&mut buffer)?; p2.write(&mut   *)
(* buffer)?; ...` appends the packets one after another, and `let mut src  *)
(* = buffer.as_slice(); Packet::read(&mut src); Packet::read(&mut src);    *)
(* ...` reads them from one slice, each read advancing the slice past the  *)
(* bytes it took.  written holds the packets written so far, decoded the   *)
(* results of the reads so far, slice what the reads have left.            *)
(***************************************************************************)
StreamPackets ==
    { Normal(258, AckData(513, U32Of(258, 772)), ChannelMessages(<<>>, <<>>, <<>>)),
      Normal(258, AckData(513, U32Of(258, 772)),
             ChannelMessages(
                << [channel_id |-> 2, messages |-> << [id |-> 258, payload |-> <<3>>] >>] >>,
                << [channel_id |-> 1, messages |-> << <<2, 0>>, <<>> >>] >>,
                << [channel_id |-> 3,
                    messages |-> << [chunk_id |-> 513, slice_id |-> U32Of(258, 772),
                                     num_slices |-> U32Of(1, 4), payload |-> <<1>>] >>] >>)),
      Fragment(258, AckData(513, U32Of(258, 772)), 0, 1, <<>>),
      Fragment(258, AckData(513, U32Of(258, 772)), 2, 3, <<0, 1, 2, 3>>),
      HeartBeat(AckData(3, U32Of(0, 0))),
      Disconnect(<<"TimedOut">>),
      Disconnect(<<"InvalidChannelId", 3>>) }

StreamInit ==
    /\ sink = NoSink
    /\ packet = NoPacket
    /\ buffer = <<>>
    /\ producer = "none"
    /\ slice = <<>>
    /\ result = NoResult
    /\ measured = NoSize
    /\ empty = NoAnswer
    /\ reason = NoReason
    /\ wire = NoWire
    /\ converted = None
    /\ written = <<>>
    /\ decoded = <<>>
    /\ op = "stream"

\* `packet.write(&mut buffer)?` on the buffer the earlier packets are in
WriteNext ==
    /\ op = "stream"
    /\ Len(written) < MaxStream
    /\ \E p \in StreamPackets :
          /\ packet' = p
          /\ buffer' = write(p, buffer)
          /\ written' = Append(written, p)
    /\ producer' = "write"
    /\ UNCHANGED <<slice, result, measured, empty, reason, wire, converted, op,
                   decoded, sink>>

\* `let mut src = buffer.as_slice();`
StartReading ==
    /\ op = "stream"
    /\ written # <<>>
    /\ slice' = buffer
    /\ op' = "reading"
    /\ UNCHANGED <<packet, buffer, producer, result, measured, empty, reason, wire,
                   converted, written, decoded, sink>>

\* `Packet::read(&mut src)`, one call for each packet written; an Err ends
\* the reading
ReadNext ==
    /\ op = "reading"
    /\ Len(decoded) < Len(written)
    /\ result' = read(slice)
    /\ decoded' = Append(decoded, result')
    /\ slice' = result'.rest
    /\ op' = IF result'.kind = "Ok" THEN "reading" ELSE "read_failed"
    /\ UNCHANGED <<packet, buffer, producer, measured, empty, reason, wire, converted,
                   written, sink>>

StreamNext ==
    \/ WriteNext
    \/ StartReading
    \/ ReadNext

StreamSpec == StreamInit /\ [][StreamNext]_vars

(***************************************************************************)
(* Packets at and beyond the widths of their prefixes: payloads of up to   *)
(* u16::MAX + 2 bytes, channels of up to u16::MAX + 2 messages, categories *)
(* of up to u8::MAX + 2 channels.  Nothing in the types keeps a Vec this   *)
(* short (the `// TODO: limit size to u16::MAX` of write), so write can be *)
(* handed each of them.                                                    *)
(***************************************************************************)
Categories == {"reliable", "unreliable", "block"}
Lengths == {0, 1, U16 - 1, U16, U16 + 1}
Counts == {0, 1, U8 - 1, U8, U8 + 1}

\* a Vec of n copies of x (`vec![x; n]`), built by doubling
RECURSIVE Repeated(_, _)
Repeated(x, n) ==
    IF n = 0 THEN <<>>
    ELSE IF n = 1 THEN <<x>>
    ELSE LET half == Repeated(x, n \div 2)
         IN half \o half \o (IF n % 2 = 1 THEN <<x>> ELSE <<>>)

\* a message of the category with the payload
MessageWith(category, payload) ==
    CASE category = "reliable" -> [id |-> 258, payload |-> payload]
      [] category = "unreliable" -> payload
      [] category = "block" -> [chunk_id |-> 513, slice_id |-> U32Of(258, 772),
                                num_slices |-> U32Of(1, 4), payload |-> payload]

\* n channels of ids 0, 1, ... (a u8, so the ids repeat after 255), each with
\* the messages
ChannelsWith(n, messages) ==
    [i \in 1..n |-> [channel_id |-> (i - 1) % U8, messages |-> messages]]

\* an aggregation with the channels in the category and no others
OneCategory(category, channels) ==
    ChannelMessages(IF category = "reliable" THEN channels ELSE <<>>,
                    IF category = "unreliable" THEN channels ELSE <<>>,
                    IF category = "block" THEN channels ELSE <<>>)

WidthPackets ==
    {Fragment(258, AckData(513, U32Of(258, 772)), 0, 1, Repeated(7, n)) : n \in Lengths}
    \cup {Normal(258, AckData(513, U32Of(258, 772)),
                 OneCategory(c, ChannelsWith(1, <<MessageWith(c, Repeated(7, n))>>))) :
             c \in Categories, n \in Lengths}
    \cup {Normal(258, AckData(513, U32Of(258, 772)),
                 OneCategory(c, ChannelsWith(1, Repeated(MessageWith(c, Repeated(7, b)), n)))) :
             c \in Categories, n \in Lengths, b \in {0, 1}}
    \cup {Normal(258, AckData(513, U32Of(258, 772)),
                 OneCategory(c, ChannelsWith(n, Repeated(MessageWith(c, <<>>), m)))) :
             c \in Categories, n \in Counts, m \in {0, 1}}

WidthInit ==
    /\ sink = NoSink
    /\ packet \in WidthPackets
    /\ buffer = <<>>
    /\ producer = "none"
    /\ slice = <<>>
    /\ result = NoResult
    /\ measured = NoSize
    /\ empty = NoAnswer
    /\ reason = NoReason
    /\ wire = NoWire
    /\ converted = None
    /\ written = <<>>
    /\ decoded = <<>>
    /\ op = "packet"

WidthNext ==
    \/ Encode
    \/ Measure

WidthSpec == WidthInit /\ [][WidthNext]_vars

(***************************************************************************)
(* Properties                                                              *)
(***************************************************************************)
ReliableOf(p) == p.channel_messages.reliable_channels_data
UnreliableOf(p) == p.channel_messages.unreliable_channels_data
BlockOf(p) == p.channel_messages.block_channels_data

\* C1: whenever read has been applied to the whole buffer that write produced
\* for a packet, of any of the four variants, it returned Ok with a packet
\* equal to the one written.
C1_RoundTrip ==
    (op = "read" /\ producer = "write")
        => (result.kind = "Ok" /\ result.packet = packet)

\* a Normal packet with a reliable, an unreliable and a block channel, one of
\* them holding a message with a payload, has been written and read back
C1_Witness ==
    /\ op = "read"
    /\ producer = "write"
    /\ packet.type = "Normal"
    /\ ReliableOf(packet) # <<>>
    /\ UnreliableOf(packet) # <<>>
    /\ BlockOf(packet) # <<>>
    /\ \E i \in 1..Len(ReliableOf(packet)) :
          \E j \in 1..Len(ReliableOf(packet)[i].messages) :
             ReliableOf(packet)[i].messages[j].payload # <<>>
    /\ result.kind = "Ok"

\* C2: whenever serialize_size has measured the packet just written, the size
\* it returned is the number of bytes write put into the buffer, for every
\* variant.
C2_SizeAgreement ==
    op = "serialize_size" => measured = Len(buffer)

\* C3: the first byte write emits is 0 for Normal, 1 for Fragment, 2 for
\* Heartbeat and 3 for Disconnect; and read of a slice whose first byte is
\* none of 0, 1, 2, 3 returns InvalidPacketType whatever follows that byte,
\* nothing included.
C3_PacketTypeTag ==
    /\ (producer = "write" /\ Len(buffer) > 0) =>
          buffer[1] = (CASE packet.type = "Normal" -> 0
                         [] packet.type = "Fragment" -> 1
                         [] packet.type = "Heartbeat" -> 2
                         [] packet.type = "Disconnect" -> 3)
    /\ producer = "write" => buffer # <<>>
    /\ (op \in {"read", "read_truncated"} /\ slice # <<>> /\ slice[1] \notin {0, 1, 2, 3})
          => result = InvalidPacketType

\* read has been handed the single byte 4 and has returned InvalidPacketType
C3_Witness ==
    /\ op = "read"
    /\ producer = "transport"
    /\ slice = <<4>>
    /\ result.kind = "InvalidPacketType"

\* C4: disconnect_packet(reason) returns the three bytes
\* <<3, reason.id(), channel_id>> that write produces for
\* Packet::Disconnect(reason), and read of them returns Ok(Disconnect(reason)).
C4_DisconnectPacketIsWireFormat ==
    /\ producer = "disconnect_packet" => buffer = write(packet, <<>>)
    /\ (producer = "disconnect_packet" /\ op = "read")
          => (result.kind = "Ok" /\ result.packet = packet)

\* C5: read of a proper prefix of the bytes written for a packet, the empty
\* prefix included, returns the I/O error: never Ok, never another error.
C5_Truncation ==
    op = "read_truncated"
        => /\ Len(slice) < Len(buffer)
           /\ slice = SubSeq(buffer, 1, Len(slice))
           /\ result = IoError

\* read has been handed all but the last byte of a Normal packet whose last
\* message carries a payload, and has returned the I/O error
C5_Witness ==
    /\ op = "read_truncated"
    /\ packet.type = "Normal"
    /\ Len(slice) = Len(buffer) - 1
    /\ BlockOf(packet) # <<>>
    /\ LET last == BlockOf(packet)[Len(BlockOf(packet))] IN
          /\ last.messages # <<>>
          /\ last.messages[Len(last.messages)].payload # <<>>
    /\ result.kind = "IoError"

\* C6: read of a Disconnect packet (tag 3, reason_id byte, channel_id byte)
\* whose reason_id is none of 0..7 returns InvalidDisconnectReason, and read
\* never returns a Disconnect packet for a slice whose reason_id byte is
\* outside 0..7.
C6_InvalidDisconnectReason ==
    /\ (op = "read" /\ Len(slice) >= 3 /\ slice[1] = 3 /\ slice[2] \notin 0..7)
          => result = InvalidDisconnectReason
    /\ (op \in {"read", "read_truncated"} /\ result.kind = "Ok"
          /\ result.packet.type = "Disconnect")
          => slice[2] \in 0..7

\* read has been handed tag 3, reason id 8 and a channel id byte, and has
\* returned InvalidDisconnectReason
C6_Witness ==
    /\ op = "read"
    /\ producer = "transport"
    /\ slice = <<3, 8, 0>>
    /\ result.kind = "InvalidDisconnectReason"

\* the numeric ids the wire contract gives the eight reasons
WireIdOf(name) ==
    CASE name = "MaxConnections" -> 0
      [] name = "TimedOut" -> 1
      [] name = "DisconnectedByServer" -> 2
      [] name = "DisconnectedByClient" -> 3
      [] name = "ClientAlreadyConnected" -> 4
      [] name = "InvalidChannelId" -> 5
      [] name = "MismatchingChannelType" -> 6
      [] name = "ReliableChannelOutOfSync" -> 7

\* C7: id() gave the reason the id of the wire contract; try_from of that id
\* and the reason's channel id (0 when it has none) gave back Some of the very
\* reason; try_from of an id above 7 gave None; and whatever reason try_from
\* gave has the id it was asked for, so the mapping is one-to-one on 0..7.
C7_ReasonIdRoundTrip ==
    /\ (op \in {"id", "try_from"} /\ reason # NoReason)
          => wire[1] = WireIdOf(reason[1])
    /\ (op = "try_from" /\ reason # NoReason) => converted = Some(reason)
    /\ (op = "try_from" /\ wire[1] > 7) => converted = None
    /\ (op = "try_from" /\ wire[1] <= 7)
          => /\ converted.some
             /\ WireIdOf(converted.value[1]) = wire[1]
             /\ converted.value[1] \in ChannelReasons => converted.value[2] = wire[2]
             /\ Len(converted.value) = IF converted.value[1] \in ChannelReasons THEN 2 ELSE 1

\* ReliableChannelOutOfSync(255) has been mapped to the pair <<7, 255>> and back
C7_Witness ==
    /\ op = "try_from"
    /\ reason = <<"ReliableChannelOutOfSync", 255>>
    /\ wire = <<7, 255>>
    /\ converted = Some(reason)

\* C8: the bytes write puts out for Disconnect(reason) are exactly three: 3,
\* the reason's id, and the channel id the reason carries, or 0 when it
\* carries none.
C8_DisconnectWireBody ==
    (producer = "write" /\ packet.type = "Disconnect")
        => /\ Len(buffer) = 3
           /\ buffer[1] = 3
           /\ buffer[2] = WireIdOf(packet.reason[1])
           /\ buffer[3] = IF packet.reason[1] \in ChannelReasons THEN packet.reason[2] ELSE 0

\* Disconnect(TimedOut), a reason without channel id, has been written
C8_Witness ==
    /\ op = "write"
    /\ packet = Disconnect(<<"TimedOut">>)
    /\ buffer = <<3, 1, 0>>

\* bytes a message takes on the wire ahead of its payload
MessageFixedBytes(category) ==
    CASE category = "reliable" -> 4
      [] category = "unreliable" -> 2
      [] category = "block" -> 12

\* bytes the messages i.. of a channel take on the wire
RECURSIVE MessagesBytes(_, _, _)
MessagesBytes(category, messages, i) ==
    IF i > Len(messages) THEN 0
    ELSE MessageFixedBytes(category) + Len(PayloadOf(category, messages[i]))
         + MessagesBytes(category, messages, i + 1)

\* bytes the channels i..k of a category take on the wire
RECURSIVE ChannelsBytes(_, _, _, _)
ChannelsBytes(category, channels, i, k) ==
    IF i > k THEN 0
    ELSE IF i = k THEN 3 + MessagesBytes(category, channels[i].messages, 1)
    ELSE ChannelsBytes(category, channels, i, (i + k) \div 2)
         + ChannelsBytes(category, channels, (i + k) \div 2 + 1, k)

\* the channel block of a category starts at index at of the buffer: its count
\* byte, then each channel of the caller's list in the list's order with its
\* id and message count, then each of its messages in order with the length
\* of its payload just ahead of the payload
BlockInCallerOrder(category, channels, at) ==
    /\ buffer[at] = Len(channels)
    /\ \A k \in 1..Len(channels) :
          LET start == at + 1 + ChannelsBytes(category, channels, 1, k - 1)
              messages == channels[k].messages
          IN /\ buffer[start] = channels[k].channel_id
             /\ buffer[start + 1] = Len(messages)
             /\ buffer[start + 2] = 0
             /\ \A j \in 1..Len(messages) :
                   LET payloadAt == start + 3
                                    + MessagesBytes(category, SubSeq(messages, 1, j - 1), 1)
                                    + MessageFixedBytes(category)
                       payload == PayloadOf(category, messages[j])
                   IN /\ buffer[payloadAt - 2] = Len(payload)
                      /\ buffer[payloadAt - 1] = 0
                      /\ SubSeq(buffer, payloadAt, payloadAt + Len(payload) - 1) = payload

\* C9: in the bytes write has produced for a Normal packet the reliable block comes first, right
\* after the 9 header bytes, then the unreliable block, then the block-channel
\* block, and nothing else; each block lists the caller's channels and their
\* messages in the caller's order; and read returns the three lists as the
\* caller gave them.
C9_AggregationOrder ==
    /\ (op = "write" /\ packet.type = "Normal") =>
          LET reliableAt == 10
              unreliableAt == reliableAt + 1
                  + ChannelsBytes("reliable", ReliableOf(packet), 1, Len(ReliableOf(packet)))
              blockAt == unreliableAt + 1
                  + ChannelsBytes("unreliable", UnreliableOf(packet), 1,
                                  Len(UnreliableOf(packet)))
          IN /\ Len(buffer) = blockAt
                  + ChannelsBytes("block", BlockOf(packet), 1, Len(BlockOf(packet)))
             /\ BlockInCallerOrder("reliable", ReliableOf(packet), reliableAt)
             /\ BlockInCallerOrder("unreliable", UnreliableOf(packet), unreliableAt)
             /\ BlockInCallerOrder("block", BlockOf(packet), blockAt)
    /\ (op = "read" /\ producer = "write" /\ packet.type = "Normal") =>
          /\ result.kind = "Ok"
          /\ ReliableOf(result.packet) = ReliableOf(packet)
          /\ UnreliableOf(result.packet) = UnreliableOf(packet)
          /\ BlockOf(result.packet) = BlockOf(packet)

\* a Normal packet whose reliable channels are 2 then 1, with an unreliable and
\* a block channel after them, has been written and read back
C9_Witness ==
    /\ op = "read"
    /\ producer = "write"
    /\ packet.type = "Normal"
    /\ Len(ReliableOf(packet)) = 2
    /\ ReliableOf(packet)[1].channel_id = 2
    /\ ReliableOf(packet)[2].channel_id = 1
    /\ UnreliableOf(packet) # <<>>
    /\ BlockOf(packet) # <<>>
    /\ ReliableOf(result.packet) = ReliableOf(packet)

\* C10: is_empty answers true exactly for the aggregations whose three lists
\* are all empty; write of a Normal packet with such an aggregation emits 12
\* bytes, the 9 header bytes (tag 0, sequence, ack, ack_bits) and three zero
\* counts; read gives back a packet with the same header whose aggregation
\* is_empty.
C10_EmptyAggregation ==
    /\ op = "is_empty" =>
          (empty = <<TRUE>>) =
             (Len(ReliableOf(packet)) = 0 /\ Len(UnreliableOf(packet)) = 0
                /\ Len(BlockOf(packet)) = 0)
    /\ op = "is_empty" => empty \in {<<TRUE>>, <<FALSE>>}
    /\ (producer = "write" /\ packet.type = "Normal"
          /\ Len(ReliableOf(packet)) + Len(UnreliableOf(packet)) + Len(BlockOf(packet)) = 0)
          => /\ Len(buffer) = 12
             /\ buffer[1] = 0
             /\ buffer[2] + 256 * buffer[3] = packet.sequence
             /\ buffer[4] + 256 * buffer[5] = packet.ack_data.ack
             /\ buffer[6] + 256 * buffer[7] = packet.ack_data.ack_bits.lo
             /\ buffer[8] + 256 * buffer[9] = packet.ack_data.ack_bits.hi
             /\ SubSeq(buffer, 10, 12) = <<0, 0, 0>>
             /\ op = "read" => (result.kind = "Ok" /\ result.packet = packet)
             /\ op = "is_empty_decoded" => empty = <<TRUE>>
    /\ (op = "is_empty_decoded" /\ empty = <<TRUE>>) => Len(buffer) = 12

\* the empty aggregation under a header of distinct bytes has been written,
\* read back and found empty
C10_Witness ==
    /\ op = "is_empty_decoded"
    /\ packet = Normal(258, AckData(513, U32Of(258, 772)), ChannelMessages(<<>>, <<>>, <<>>))
    /\ buffer = <<0, 2, 1, 1, 2, 4, 3, 2, 1, 0, 0, 0>>
    /\ empty = <<TRUE>>

\* the byte of weight 256^k (k = 0 the low byte) of a u16 and of a u32
ByteOfU16(x, k) == (x \div (IF k = 0 THEN 1 ELSE 256)) % 256
ByteOfU32(x, k) == IF k < 2 THEN ByteOfU16(x.lo, k) ELSE ByteOfU16(x.hi, k - 2)

\* C11: write of a Fragment emits tag 1, sequence, ack, ack_bits, fragment_id,
\* num_fragments, the payload length and the payload, in that order, every
\* multi-byte integer low byte first, 13 + payload.len() bytes in all; write of
\* a Heartbeat emits tag 2, ack and ack_bits, low byte first, 7 bytes in all.
C11_FragmentHeartbeatLayout ==
    /\ (op = "write" /\ packet.type = "Fragment") =>
          /\ Len(buffer) = 13 + Len(packet.payload)
          /\ buffer[1] = 1
          /\ \A k \in 0..1 : buffer[2 + k] = ByteOfU16(packet.sequence, k)
          /\ \A k \in 0..1 : buffer[4 + k] = ByteOfU16(packet.ack_data.ack, k)
          /\ \A k \in 0..3 : buffer[6 + k] = ByteOfU32(packet.ack_data.ack_bits, k)
          /\ buffer[10] = packet.fragment_id
          /\ buffer[11] = packet.num_fragments
          /\ \A k \in 0..1 : buffer[12 + k] = ByteOfU16(Len(packet.payload), k)
          /\ SubSeq(buffer, 14, Len(buffer)) = packet.payload
    /\ (op = "write" /\ packet.type = "Heartbeat") =>
          /\ Len(buffer) = 7
          /\ buffer[1] = 2
          /\ \A k \in 0..1 : buffer[2 + k] = ByteOfU16(packet.ack_data.ack, k)
          /\ \A k \in 0..3 : buffer[4 + k] = ByteOfU32(packet.ack_data.ack_bits, k)

\* a Fragment whose integers have distinct bytes has been written with a
\* payload, and its bytes are the little-endian ones
C11_Witness ==
    /\ op = "write"
    /\ packet = Fragment(258, AckData(258, U32Of(258, 772)), 255, 1, <<255>>)
    /\ buffer = <<1, 2, 1, 2, 1, 4, 3, 2, 1, 255, 1, 1, 0, 255>>

\* the bytes write appends for the packets ps[i], ..., ps[Len(ps)], in order
RECURSIVE BytesFrom(_, _)
BytesFrom(ps, i) ==
    IF i > Len(ps) THEN <<>> ELSE write(ps[i], <<>>) \o BytesFrom(ps, i + 1)

\* C12: with packets p1..pn written one after another into one buffer, the
\* k-th successive read returns Ok(pk) and leaves in the slice exactly the
\* bytes written for the packets after pk, so each read takes the bytes of
\* its own packet and no more; after the n-th read the slice is empty.
C12_NoOverRead ==
    op \in {"reading", "read_failed"} =>
       /\ op = "reading"
       /\ Len(decoded) <= Len(written)
       /\ \A k \in 1..Len(decoded) :
             /\ decoded[k].kind = "Ok"
             /\ decoded[k].packet = written[k]
             /\ decoded[k].rest = BytesFrom(written, k + 1)
       /\ slice = BytesFrom(written, Len(decoded) + 1)
       /\ buffer = BytesFrom(written, 1)
       /\ Len(decoded) = Len(written) => slice = <<>>

\* three packets of different variants, a Heartbeat between a Normal packet
\* with messages and a Fragment, have been read back from one buffer
C12_Witness ==
    /\ op = "reading"
    /\ Len(written) = 3
    /\ Len(decoded) = 3
    /\ written[1].type = "Normal"
    /\ ~is_empty(written[1].channel_messages)
    /\ written[2].type = "Heartbeat"
    /\ written[3].type = "Fragment"
    /\ written[3].payload # <<>>
    /\ decoded[3].packet = written[3]
    /\ slice = <<>>

\* the two bytes at index at of the buffer, read low byte first
PrefixAt(at) == buffer[at] + 256 * buffer[at + 1]

\* the channel block of a category whose channels all hold m messages with
\* payloads of b bytes starts at index at of the buffer: its count byte is the
\* number of channels modulo 2^8; every channel follows with its id and, as
\* message count, m modulo 2^16; every message of every channel follows with,
\* as length, b modulo 2^16 and then all of its payload
UniformBlock(category, channels, at, m, b) ==
    LET messageBytes == MessageFixedBytes(category) + b
        channelBytes == 3 + m * messageBytes
    IN /\ buffer[at] = Len(channels) % 256
       /\ Len(channels) < 256 => buffer[at] = Len(channels)
       /\ \A k \in 1..Len(channels) :
             LET start == at + 1 + (k - 1) * channelBytes
                 messages == channels[k].messages
             IN /\ Len(messages) = m
                /\ buffer[start] = channels[k].channel_id
                /\ PrefixAt(start + 1) = m % 65536
                /\ m < 65536 => PrefixAt(start + 1) = m
                /\ \A j \in 1..m :
                      LET payloadAt == start + 3 + (j - 1) * messageBytes
                                       + MessageFixedBytes(category)
                          payload == PayloadOf(category, messages[j])
                      IN /\ Len(payload) = b
                         /\ PrefixAt(payloadAt - 2) = b % 65536
                         /\ b < 65536 => PrefixAt(payloadAt - 2) = b
                         /\ SubSeq(buffer, payloadAt, payloadAt + b - 1) = payload

\* the bytes a uniform block takes
UniformBytes(category, channels, m, b) ==
    1 + Len(channels) * (3 + m * (MessageFixedBytes(category) + b))

\* messages of the first channel, payload bytes of its first message
FirstCount(channels) ==
    IF Len(channels) = 0 THEN 0 ELSE Len(channels[1].messages)
FirstLength(category, channels) ==
    IF FirstCount(channels) = 0 THEN 0
    ELSE Len(PayloadOf(category, channels[1].messages[1]))

\* C13: write emits every length and count prefix as the true value reduced
\* modulo 2^16 (modulo 2^8 for a channel count), which is the true value
\* whenever that fits the prefix, and after each prefix it writes all of the
\* elements, also when there are more of them than the prefix can say: a
\* payload of more than 65535 bytes, a channel of more than 65535 messages and
\* a category of more than 255 channels are written whole.
C13_OversizeWraps ==
    /\ (op = "write" /\ packet.type = "Fragment") =>
          /\ PrefixAt(12) = Len(packet.payload) % 65536
          /\ Len(packet.payload) < 65536 => PrefixAt(12) = Len(packet.payload)
          /\ Len(buffer) = 13 + Len(packet.payload)
          /\ SubSeq(buffer, 14, Len(buffer)) = packet.payload
    /\ (op = "write" /\ packet.type = "Normal") =>
          LET rm == FirstCount(ReliableOf(packet))
              rb == FirstLength("reliable", ReliableOf(packet))
              um == FirstCount(UnreliableOf(packet))
              ub == FirstLength("unreliable", UnreliableOf(packet))
              bm == FirstCount(BlockOf(packet))
              bb == FirstLength("block", BlockOf(packet))
              unreliableAt == 10 + UniformBytes("reliable", ReliableOf(packet), rm, rb)
              blockAt == unreliableAt
                         + UniformBytes("unreliable", UnreliableOf(packet), um, ub)
          IN /\ UniformBlock("reliable", ReliableOf(packet), 10, rm, rb)
             /\ UniformBlock("unreliable", UnreliableOf(packet), unreliableAt, um, ub)
             /\ UniformBlock("block", BlockOf(packet), blockAt, bm, bb)
             /\ Len(buffer) = blockAt - 1 + UniformBytes("block", BlockOf(packet), bm, bb)

\* a Fragment with a payload of 65536 bytes has been written: its length
\* prefix is 0 and all 65536 bytes follow
C13_Witness ==
    /\ op = "write"
    /\ packet.type = "Fragment"
    /\ Len(packet.payload) = 65536
    /\ PrefixAt(12) = 0
    /\ Len(buffer) = 13 + 65536

\* a channel of 65537 messages has been written with message count 1
C13_WitnessMessages ==
    /\ op = "write"
    /\ packet.type = "Normal"
    /\ Len(UnreliableOf(packet)) = 1
    /\ Len(UnreliableOf(packet)[1].messages) = 65537
    /\ PrefixAt(13) = 1

\* a category of 256 channels has been written with channel count 0
C13_WitnessChannels ==
    /\ op = "write"
    /\ packet.type = "Normal"
    /\ Len(BlockOf(packet)) = 256
    /\ buffer[12] = 0
    /\ Len(buffer) = 12 + 256 * 3

\* C14: whatever the sink, when write has returned Ok(()) the sink holds the
\* complete encoding of the packet, every byte of every tag, field, prefix
\* and payload in order.
C14_CompleteOutput ==
    op = "write_short" => buffer = write(packet, <<>>)

====
